---- MODULE Spec2Model ----
(***************************************************************************)
(* Model of Challenge_1a/process_pdfs.py: the font baseline estimator      *)
(* (analyze_font_styles), the heading classifier (classify_heading), the   *)
(* per-document extraction (extract_structure_from_pdf) and the batch      *)
(* loop (main).                                                            *)
(*                                                                         *)
(* Representation.  A Python str is a sequence of one-character strings    *)
(* ("EMDASH" and "ENDASH" stand for the two non-ASCII dashes).  A float    *)
(* font size is an integer number of quarter points (48 is 12.0, 29 is     *)
(* 7.25), so that rounding and the mean of sizes are exact.  The Python    *)
(* value None is the string "None" for a level and [kind |-> "None"] for   *)
(* a returned structure.                                                   *)
(***************************************************************************)
EXTENDS Integers, Sequences, FiniteSets, TLC

VARIABLES
    pc,              \* position of the running function
    text,            \* classify_heading: argument text
    span,            \* classify_heading: argument span (the line's first span)
    level,           \* classify_heading: returned level
    body_font_size,  \* the baseline (argument of classify_heading, local of extract)
    pdf_path,        \* extract_structure_from_pdf: argument
    file,            \* what is stored at pdf_path: [readable, pages]
    title,           \* extract_structure_from_pdf: local title
    outline,         \* extract_structure_from_pdf: local outline
    line_idx,        \* heading detection: number of the next line in visit order
    result,          \* extract_structure_from_pdf: returned value
    listing,         \* main: os.listdir(input_dir), in the order it is iterated
    fs,              \* main: the file stored under each name of the listing
    file_idx,        \* main: position of the for loop in the listing
    output_log       \* main: the output files written, in order

classifyVars == <<text, span, level>>
extractVars == <<pdf_path, file, title, outline, line_idx, result>>
batchVars == <<listing, fs, file_idx, output_log>>
vars == <<pc, text, span, level, body_font_size, pdf_path, file, title, outline,
          line_idx, result, listing, fs, file_idx, output_log>>

\* the values of the variables a specification does not use
NoResult == [kind |-> "None"]
NoFile == [readable |-> FALSE, pages |-> <<>>]
ClassifyIdle ==
    /\ text = <<>>
    /\ span = [text |-> <<>>, size |-> 0, font |-> <<>>]
    /\ level = "None"
ExtractIdle ==
    /\ pdf_path = <<>>
    /\ file = NoFile
    /\ title = <<>>
    /\ outline = <<>>
    /\ line_idx = 0
    /\ result = NoResult
BatchIdle ==
    /\ listing = <<>>
    /\ fs = <<>>
    /\ file_idx = 0
    /\ output_log = <<>>

(***************************************************************************)
(* Characters and str methods                                              *)
(***************************************************************************)
UpperCh == {"A", "B", "C", "D", "E", "F", "G", "H", "I", "K", "L", "M", "N",
            "O", "P", "T", "V", "X", "Y"}
LowerCh == {"a", "b", "c", "d", "e", "f", "g", "h", "i", "k", "l", "m", "n",
            "o", "p", "r", "s", "t", "u", "v", "w", "x", "y"}
DigitCh == {"0", "1", "2", "3"}
SpaceCh == {" "}
RomanCh == {"I", "V", "X", "L", "C", "D", "M"}

\* str.lower() on one character
LowerOf(c) ==
    CASE c = "A" -> "a" [] c = "B" -> "b" [] c = "C" -> "c" [] c = "D" -> "d"
      [] c = "E" -> "e" [] c = "F" -> "f" [] c = "G" -> "g" [] c = "H" -> "h"
      [] c = "I" -> "i" [] c = "K" -> "k" [] c = "L" -> "l" [] c = "M" -> "m"
      [] c = "N" -> "n" [] c = "O" -> "o" [] c = "P" -> "p" [] c = "T" -> "t"
      [] c = "V" -> "v" [] c = "X" -> "x" [] c = "Y" -> "y"
      [] OTHER -> c

Lower(s) == [i \in 1..Len(s) |-> LowerOf(s[i])]

\* str.strip(): from the first to the last character that is not whitespace
Strip(s) ==
    LET inked == {i \in 1..Len(s) : s[i] \notin SpaceCh}
    IN  IF inked = {} THEN <<>>
        ELSE SubSeq(s, CHOOSE i \in inked : \A j \in inked : i <= j,
                       CHOOSE i \in inked : \A j \in inked : j <= i)

\* str.split(): the maximal runs of non-whitespace characters, in order
Split(s) ==
    LET starts == {i \in 1..Len(s) : s[i] \notin SpaceCh /\ (i = 1 \/ s[i - 1] \in SpaceCh)}
        EndOf(i) == CHOOSE j \in i..Len(s) :
                        /\ \A k \in i..j : s[k] \notin SpaceCh
                        /\ (j = Len(s) \/ s[j + 1] \in SpaceCh)
        Start(k) == CHOOSE i \in starts : Cardinality({j \in starts : j <= i}) = k
    IN  [k \in 1..Cardinality(starts) |-> SubSeq(s, Start(k), EndOf(Start(k)))]

\* " ".join(parts), from part i on
RECURSIVE JoinFrom(_, _)
JoinFrom(parts, i) ==
    IF i > Len(parts) THEN <<>>
    ELSE IF i = Len(parts) THEN parts[i]
    ELSE parts[i] \o <<" ">> \o JoinFrom(parts, i + 1)

Join(parts) == JoinFrom(parts, 1)

StartsWith(s, p) == Len(p) <= Len(s) /\ SubSeq(s, 1, Len(p)) = p
EndsWith(s, p) == Len(p) <= Len(s) /\ SubSeq(s, Len(s) - Len(p) + 1, Len(s)) = p
\* p in s
Contains(s, p) == \E i \in 0..(Len(s) - Len(p)) : SubSeq(s, i + 1, i + Len(p)) = p
\* str.islower(): some cased character, and no uppercase one
IsLower(s) ==
    /\ \E i \in 1..Len(s) : s[i] \in LowerCh
    /\ \A i \in 1..Len(s) : s[i] \notin UpperCh

\* round() of a float given in quarter points: to nearest, a half to the even
Round(q) ==
    LET k == q \div 4
        r == q % 4
    IN  IF r < 2 THEN k
        ELSE IF r > 2 THEN k + 1
        ELSE IF k % 2 = 0 THEN k ELSE k + 1

(***************************************************************************)
(* is_bold and classify_heading                                            *)
(***************************************************************************)
is_bold(sp) ==
    LET font_name == Lower(sp.font)
    IN  \/ Contains(font_name, <<"b", "o", "l", "d">>)
        \/ Contains(font_name, <<"b", "l", "a", "c", "k">>)
        \/ Contains(font_name, <<"h", "e", "a", "v", "y">>)

\* the six noise filters; t is the stripped text
PassesFilters(t) ==
    LET words == Split(t)
    IN  /\ ~(Len(t) < 3)
        /\ ~(\/ \E c \in {",", ";", "EMDASH", ".", "ENDASH", ":"} : EndsWith(t, <<c>>)
             \/ (IsLower(t) /\ Len(words) > 4))
        /\ ~(\/ StartsWith(t, <<"[", "[">>)
             \/ StartsWith(t, <<"(">>)
             \/ StartsWith(t, <<"h", "t", "t", "p">>)
             \/ EndsWith(t, <<")">>)
             \/ Contains(t, <<".", "g", "i", "t">>))
        /\ (t[1] \in UpperCh \/ t[1] \in DigitCh)
        /\ ~(Len(words) > 8)
        /\ ~(Len(words) \in {2, 3} /\ IsLower(Join(Tail(words))))

\* the alternatives of the group (\d+(\.\d+)*|[A-Z]|[a-z]|[IVXLCDM]+)
IsEnumerator(e) ==
    \/ /\ Len(e) >= 1
       /\ \A i \in 1..Len(e) : e[i] \in DigitCh \/ e[i] = "."
       /\ e[1] \in DigitCh
       /\ e[Len(e)] \in DigitCh
       /\ \A i \in 1..(Len(e) - 1) : ~(e[i] = "." /\ e[i + 1] = ".")
    \/ (Len(e) = 1 /\ e[1] \in UpperCh \cup LowerCh)
    \/ (Len(e) >= 1 /\ \A i \in 1..Len(e) : e[i] \in RomanCh)

\* re.match(r'^\s*(\d+(\.\d+)*|[A-Z]|[a-z]|[IVXLCDM]+)\.?\s+', t)
IsListMarker(t) ==
    \E i \in 0..Len(t) : \E j \in 1..Len(t) : \E d \in {0, 1} :
        /\ i < j
        /\ \A k \in 1..i : t[k] \in SpaceCh
        /\ IsEnumerator(SubSeq(t, i + 1, j))
        /\ (d = 1 => (j + 1 <= Len(t) /\ t[j + 1] = "."))
        /\ j + d + 1 <= Len(t)
        /\ t[j + d + 1] \in SpaceCh

\* size / body_font_size > num / den
RatioAbove(size, body, num, den) == size * den > num * body

\* the final classification of a line that passed the filters
AssignLevelFlipped(size, body, bold, marker) ==
    IF ~(size > body \/ bold) THEN "None"
    ELSE IF ~RatioAbove(size, body, 18, 10) /\ bold THEN "H1"
    ELSE IF RatioAbove(size, body, 135, 100) \/ (bold /\ RatioAbove(size, body, 115, 100))
         THEN "H2"
    ELSE IF size > body \/ bold \/ marker THEN "H3"
    ELSE "None"

AssignLevelNoGate(size, body, bold, marker) ==
    IF RatioAbove(size, body, 18, 10) /\ bold THEN "H1"
    ELSE IF RatioAbove(size, body, 135, 100) \/ (bold /\ RatioAbove(size, body, 115, 100))
         THEN "H2"
    ELSE IF size > body \/ bold \/ marker THEN "H3"
    ELSE "None"

AssignLevel(size, body, bold, marker) ==
    LET is_heading_font == size > body
        is_bold_font == bold
    IN  IF ~(is_heading_font \/ is_bold_font) THEN "None"
        ELSE IF RatioAbove(size, body, 18, 10) /\ is_bold_font THEN "H1"
        ELSE IF \/ RatioAbove(size, body, 135, 100)
                \/ (is_bold_font /\ RatioAbove(size, body, 115, 100))
             THEN "H2"
        ELSE IF is_heading_font \/ is_bold_font \/ marker THEN "H3"
        ELSE "None"

classify_heading(txt, sp, body) ==
    LET size == Round(sp.size)
        t == Strip(txt)
    IN  IF ~PassesFilters(t) THEN "None"
        ELSE AssignLevel(size, body, is_bold(sp), IsListMarker(t))

(***************************************************************************)
(* Inputs of the classifier                                                *)
(***************************************************************************)
MaxPt == 40

Fonts == { <<"A", "r", "i", "a", "l">>,
           <<"A", "-", "B", "o", "l", "d">>,
           <<"H", "E", "A", "V", "Y">>,
           <<"B", "l", "a", "c", "k">> }

ClassifyTexts == {
    <<"I", "n", "t", "r", "o">>,
    <<"1", ".", " ", "I", "n", "t", "r", "o">>,
    <<"2", ".", "1", " ", "P", "l", "a", "n">>,
    <<"I", "V", " ", "P", "l", "a", "n">>,
    <<"A", "b">>,
    <<"N", "o", " ", "w", "e", "b">>,
    <<"E", "n", "d", ".">>,
    <<"(", "A", "b", ")">>,
    <<"i", "n", "t", "r", "o">>,
    <<" ", "I", "n", "t", "r", "o", " ">>,
    <<"A", " ", "B", " ", "C", " ", "D", " ", "E", " ", "F", " ", "G", " ", "H", " ", "I">>,
    <<"a", " ", "b", " ", "c", " ", "d", " ", "e">> }

\* whole points from 8 to MaxPt, and two halves (12.5 rounds to 12, 13.5 to 14)
ClassifySizes == {4 * k : k \in 8..MaxPt} \cup {50, 54}

Baselines == {12, 20}

Rank(l) == CASE l = "H1" -> 3 [] l = "H2" -> 2 [] l = "H3" -> 1 [] OTHER -> 0

(***************************************************************************)
(* Specification of one call of classify_heading                           *)
(***************************************************************************)
InitClassify ==
    /\ pc = "call"
    /\ text \in ClassifyTexts
    /\ span \in [text : {<<>>}, size : ClassifySizes, font : Fonts]
    /\ body_font_size \in Baselines
    /\ level = "None"
    /\ ExtractIdle
    /\ BatchIdle

Classify ==
    /\ pc = "call"
    /\ level' = classify_heading(text, span, body_font_size)
    /\ pc' = "classified"
    /\ UNCHANGED <<text, span, body_font_size, extractVars, batchVars>>

NextClassify == Classify

SpecClassify == InitClassify /\ [][NextClassify]_vars

\* C8: with the text, the boldness and the baseline fixed, a line of larger
\* size_ratio never gets a lower rank (H1 > H2 > H3 > not a heading).
LevelMonotoneInSize ==
    pc = "classified" =>
        \A q \in ClassifySizes :
            Round(q) > Round(span.size) =>
                Rank(classify_heading(text, [span EXCEPT !.size = q], body_font_size))
                    >= Rank(level)

LevelMonotoneWitness ==
    /\ pc = "classified"
    /\ level = "H3"
    /\ \E q \in ClassifySizes :
        /\ Round(q) > Round(span.size)
        /\ classify_heading(text, [span EXCEPT !.size = q], body_font_size) = "H1"

\* C10: a line that passes the filters gets a level exactly when it is larger
\* than the baseline or bold, by the first matching row of the table; whether
\* the text matches the list-marker pattern changes nothing.
LevelByTable ==
    (pc = "classified" /\ PassesFilters(Strip(text))) =>
        LET size == Round(span.size)
            bold == is_bold(span)
        IN  level =
              IF ~(size > body_font_size \/ bold) THEN "None"
              ELSE IF 10 * size > 18 * body_font_size /\ bold THEN "H1"
              ELSE IF \/ 100 * size > 135 * body_font_size
                      \/ (bold /\ 100 * size > 115 * body_font_size) THEN "H2"
              ELSE "H3"

LevelByTableWitness ==
    /\ pc = "classified"
    /\ PassesFilters(Strip(text))
    /\ IsListMarker(Strip(text))
    /\ ~is_bold(span)
    /\ Round(span.size) <= body_font_size
    /\ level = "None"

(***************************************************************************)
(* Documents.  A document is a sequence of pages, a page the sequence of   *)
(* blocks page.get_text("dict")["blocks"] gives, a block [type, lines]     *)
(* (an image block has type 1 and no lines), a line [spans], a span        *)
(* [text, size, font].                                                     *)
(***************************************************************************)
RECURSIVE ConcatFrom(_, _)
ConcatFrom(ss, i) == IF i > Len(ss) THEN <<>> ELSE ss[i] \o ConcatFrom(ss, i + 1)

Concat(ss) == ConcatFrom(ss, 1)

\* the spans of a block, line after line
BlockSpans(block) == Concat([l \in 1..Len(block.lines) |-> block.lines[l].spans])

\* every span of the document in the order the four nested loops visit them
AllSpans(pages) ==
    Concat([p \in 1..Len(pages) |->
        Concat([b \in 1..Len(pages[p]) |-> BlockSpans(pages[p][b])])])

(***************************************************************************)
(* analyze_font_styles.  font_sizes is a dict: a sequence of [size, count] *)
(* in insertion order.                                                     *)
(***************************************************************************)
MinSize == 7
DefaultSize == 12

CountedFrom7(sp) == sp.size >= 4 * MinSize

\* span["size"] > 7
Counted(sp) == sp.size > 4 * MinSize

\* font_sizes[size] += n
AddCount(font_sizes, size, n) ==
    IF \E i \in 1..Len(font_sizes) : font_sizes[i].size = size
    THEN [i \in 1..Len(font_sizes) |->
            IF font_sizes[i].size = size
            THEN [font_sizes[i] EXCEPT !.count = @ + n]
            ELSE font_sizes[i]]
    ELSE Append(font_sizes, [size |-> size, count |-> n])

RECURSIVE CountSpans(_, _)
CountSpans(font_sizes, spans) ==
    IF spans = <<>> THEN font_sizes
    ELSE CountSpans(
            IF Counted(Head(spans))
            THEN AddCount(font_sizes, Round(Head(spans).size), Len(Head(spans).text))
            ELSE font_sizes,
            Tail(spans))

MaxKeyLast(font_sizes) ==
    LET best == CHOOSE i \in 1..Len(font_sizes) :
                    /\ \A j \in 1..Len(font_sizes) : font_sizes[j].count <= font_sizes[i].count
                    /\ \A j \in (i + 1)..Len(font_sizes) : font_sizes[j].count < font_sizes[i].count
    IN  font_sizes[best].size

\* max(font_sizes, key=font_sizes.get): the first key, in insertion order, of
\* the largest count
MaxKey(font_sizes) ==
    LET best == CHOOSE i \in 1..Len(font_sizes) :
                    /\ \A j \in 1..Len(font_sizes) : font_sizes[j].count <= font_sizes[i].count
                    /\ \A j \in 1..(i - 1) : font_sizes[j].count < font_sizes[i].count
    IN  font_sizes[best].size

analyze_font_styles(pages) ==
    LET font_sizes == CountSpans(<<>>, AllSpans(pages))
    IN  IF font_sizes = <<>> THEN DefaultSize ELSE MaxKey(font_sizes)

(***************************************************************************)
(* Building the documents a specification starts from: a document is laid  *)
(* out from at most a bounded number of items, each an image block or a    *)
(* span that opens a new page, a new block, a new line, or continues the   *)
(* last line.                                                              *)
(***************************************************************************)
NewLine(sp) == [spans |-> <<sp>>]
NewBlock(sp) == [type |-> 0, lines |-> <<NewLine(sp)>>]
ImageBlock == [type |-> 1, lines |-> <<>>]

AddItem(pages, it) ==
    LET np == Len(pages) IN
    IF it.brk = "image"
    THEN IF np = 0 THEN <<<<ImageBlock>>>>
         ELSE [pages EXCEPT ![np] = Append(@, ImageBlock)]
    ELSE IF np = 0 \/ it.brk = "page" THEN Append(pages, <<NewBlock(it.span)>>)
    ELSE LET nb == Len(pages[np]) IN
         IF it.brk = "block" \/ pages[np][nb].type # 0
         THEN [pages EXCEPT ![np] = Append(@, NewBlock(it.span))]
         ELSE LET nl == Len(pages[np][nb].lines) IN
              IF it.brk = "line"
              THEN [pages EXCEPT ![np][nb].lines = Append(@, NewLine(it.span))]
              ELSE [pages EXCEPT ![np][nb].lines[nl].spans = Append(@, it.span)]

RECURSIVE Layout(_, _)
Layout(pages, items) ==
    IF items = <<>> THEN pages ELSE Layout(AddItem(pages, Head(items)), Tail(items))

SeqsUpTo(S, n) == UNION {[1..k -> S] : k \in 0..n}
DocsOf(items, n) == {Layout(<<>>, its) : its \in SeqsUpTo(items, n)}

(***************************************************************************)
(* Specification of one call of analyze_font_styles                        *)
(***************************************************************************)
MaxFontItems == 3

\* 7.0, 7.25, 7.5, 8.5 and 9.5 points: they round to 7, 7, 8, 8 and 10
FontSizes == {28, 29, 30, 34, 38}
FontTexts == { <<>>, <<"a", "b">> }
FontItems ==
    [brk : {"page", "span"},
     span : [text : FontTexts, size : FontSizes, font : {<<"A", "r", "i", "a", "l">>}]]

InitFont ==
    /\ pc = "analyze"
    /\ file \in [readable : {TRUE}, pages : DocsOf(FontItems, MaxFontItems)]
    /\ body_font_size = 0
    /\ pdf_path = <<>>
    /\ title = <<>>
    /\ outline = <<>>
    /\ line_idx = 0
    /\ result = NoResult
    /\ ClassifyIdle
    /\ BatchIdle

AnalyzeFont ==
    /\ pc = "analyze"
    /\ body_font_size' = analyze_font_styles(file.pages)
    /\ pc' = "analyzed"
    /\ UNCHANGED <<classifyVars, extractVars, batchVars>>

NextFont == AnalyzeFont

SpecFont == InitFont /\ [][NextFont]_vars

\* the document of one page, one block and one line that holds the spans q
OneLineDoc(q) == IF q = <<>> THEN <<>> ELSE <<<<[type |-> 0, lines |-> <<[spans |-> q]>>]>>>>

\* the spans of the document, visited in every possible order
Reorderings(spans) ==
    {[i \in 1..Len(spans) |-> spans[p[i]]] : p \in Permutations(1..Len(spans))}

RECURSIVE CharsOfSize(_, _)
\* the characters of the spans of raw size above 7 that round to size s
CharsOfSize(spans, s) ==
    IF spans = <<>> THEN 0
    ELSE (IF Head(spans).size > 28 /\ Round(Head(spans).size) = s
          THEN Len(Head(spans).text) ELSE 0) + CharsOfSize(Tail(spans), s)

\* the rounded sizes, among the spans of raw size above 7, of the largest count
DominantSizes(spans) ==
    LET sizes == {Round(spans[i].size) : i \in {j \in 1..Len(spans) : spans[j].size > 28}}
    IN  {s \in sizes : \A s2 \in sizes : CharsOfSize(spans, s2) <= CharsOfSize(spans, s)}

\* of the sizes S, the one a span of raw size above 7 shows first in the order q
FirstVisited(q, S) ==
    LET i == CHOOSE i \in 1..Len(q) :
                /\ q[i].size > 28 /\ Round(q[i].size) \in S
                /\ \A j \in 1..(i - 1) : ~(q[j].size > 28 /\ Round(q[j].size) \in S)
    IN  Round(q[i].size)

\* C4 as stated: every order of the spans gives the baseline the call returned.
BaselinePermutationInvariant ==
    pc = "analyzed" =>
        \A q \in Reorderings(AllSpans(file.pages)) :
            analyze_font_styles(OneLineDoc(q)) = body_font_size

\* C4 as amended: every order of the spans gives a size of the largest
\* accumulated count, the same one in every order when a single size has the
\* largest count, and among tied sizes the one whose span is visited first.
BaselineOrderDependence ==
    pc = "analyzed" =>
        LET spans == AllSpans(file.pages)
            tied == DominantSizes(spans)
        IN  /\ tied # {} => body_font_size = FirstVisited(spans, tied)
            /\ \A q \in Reorderings(spans) :
                 /\ tied # {} => analyze_font_styles(OneLineDoc(q)) = FirstVisited(q, tied)
                 /\ Cardinality(tied) = 1 =>
                        analyze_font_styles(OneLineDoc(q)) = body_font_size

BaselineOrderWitness ==
    /\ pc = "analyzed"
    /\ Cardinality(DominantSizes(AllSpans(file.pages))) = 2
    /\ Len(file.pages) = 2
    /\ \E q \in Reorderings(AllSpans(file.pages)) :
         analyze_font_styles(OneLineDoc(q)) # body_font_size

\* C9 as stated: only spans of rounded size above 7 count, so the baseline is
\* 12 when every rounded size is at most 7 and is above 7 otherwise.
BaselineAboveSeven ==
    pc = "analyzed" =>
        LET spans == AllSpans(file.pages)
            big == {i \in 1..Len(spans) : Round(spans[i].size) > 7}
        IN  /\ big = {} => body_font_size = 12
            /\ big # {} => body_font_size \in {Round(spans[i].size) : i \in big}
            /\ body_font_size > 7

\* C9 as amended: only spans of raw size above 7 count; the baseline is 12
\* when no span has a raw size above 7, and otherwise a rounded size, of the
\* spans of raw size above 7, with the largest accumulated character count;
\* it is never smaller than 7.
BaselineFromRawSize ==
    pc = "analyzed" =>
        LET spans == AllSpans(file.pages)
            counted == {i \in 1..Len(spans) : spans[i].size > 28}
        IN  /\ counted = {} => body_font_size = 12
            /\ counted # {} => body_font_size \in DominantSizes(spans)
            /\ body_font_size >= 7

BaselineFromRawWitness ==
    /\ pc = "analyzed"
    /\ body_font_size = 7
    /\ \E i \in 1..Len(AllSpans(file.pages)) : AllSpans(file.pages)[i].size = 28

(***************************************************************************)
(* extract_structure_from_pdf                                              *)
(***************************************************************************)
MinTitleLen == 5

OpenErrorAsEmpty == [kind |-> "dict", title |-> <<>>, outline |-> <<>>]

\* return None of the except branch
OnOpenError == [kind |-> "None"]

\* return {"title": "", "outline": []}
EmptyStructure == [kind |-> "dict", title |-> <<>>, outline |-> <<>>]

\* os.path.basename
Basename(path) ==
    LET seps == {i \in 1..Len(path) : path[i] = "/"}
    IN  IF seps = {} THEN path
        ELSE SubSeq(path, (CHOOSE i \in seps : \A j \in seps : j <= i) + 1, Len(path))

\* os.path.splitext(name)[0]: name up to its last dot, unless only dots precede it
SplitextRoot(name) ==
    LET dots == {i \in 1..Len(name) : name[i] = "." /\ \E j \in 1..(i - 1) : name[j] # "."}
    IN  IF dots = {} THEN name
        ELSE SubSeq(name, 1, (CHOOSE i \in dots : \A j \in dots : j <= i) - 1)

HasText(sp) == Strip(sp.text) # <<>>

RECURSIVE SumSizesFrom(_, _)
SumSizesFrom(spans, i) ==
    IF i > Len(spans) THEN 0 ELSE spans[i].size + SumSizesFrom(spans, i + 1)

SumSizes(spans) == SumSizesFrom(spans, 1)

\* the spans line 111 keeps of a block
TitleSpans(block) == SelectSeq(BlockSpans(block), HasText)

ReplacesOnTie(sum, n, body, best) ==
    /\ 2 * sum > 3 * body * 4 * n
    /\ sum * best.den >= best.num * n

\* avg_size > body_font_size * 1.5 and avg_size > max_avg_size, where avg_size
\* is sum / n and max_avg_size is best.num / best.den, in quarter points
Replaces(sum, n, body, best) ==
    /\ 2 * sum > 3 * body * 4 * n
    /\ sum * best.den > best.num * n

\* the loop of lines 108-119 from block i on; best is [num, den, idx], idx the
\* number of title_block in the page, 0 for None
RECURSIVE ScanBlocks(_, _, _, _)
ScanBlocks(blocks, i, body, best) ==
    IF i > Len(blocks) THEN best
    ELSE IF blocks[i].type # 0 \/ TitleSpans(blocks[i]) = <<>>
         THEN ScanBlocks(blocks, i + 1, body, best)
    ELSE LET spans == TitleSpans(blocks[i])
         IN  IF Replaces(SumSizes(spans), Len(spans), body, best)
             THEN ScanBlocks(blocks, i + 1, body,
                             [num |-> SumSizes(spans), den |-> Len(spans), idx |-> i])
             ELSE ScanBlocks(blocks, i + 1, body, best)

TitleBlock(first_page, body) ==
    ScanBlocks(first_page, 1, body, [num |-> 0, den |-> 1, idx |-> 0]).idx

\* " ".join(span texts).strip()
LineText(line) == Strip(Join([s \in 1..Len(line.spans) |-> line.spans[s].text]))

NotEmpty(s) == s # <<>>

\* lines 122-127
TitleText(block) ==
    Join(SelectSeq([l \in 1..Len(block.lines) |-> LineText(block.lines[l])], NotEmpty))

\* lines 121-130
DetectedTitle(pages, body, path) ==
    LET title_block == TitleBlock(pages[1], body)
        t == IF title_block # 0 THEN TitleText(pages[1][title_block]) ELSE <<>>
    IN  IF t = <<>> \/ Len(t) < MinTitleLen THEN Basename(path) ELSE t

\* the lines of the document in the order of the loops of lines 133-138, each
\* with page_num + 1
VisitLines(pages) ==
    Concat([p \in 1..Len(pages) |->
        Concat([b \in 1..Len(pages[p]) |->
            [l \in 1..Len(pages[p][b].lines) |->
                [line |-> pages[p][b].lines[l], page |-> p]]])])

IsTitlePartExact(ttl, line_text) == ttl # <<>> /\ line_text = ttl

\* title and line_text in title
IsTitlePart(ttl, line_text) == ttl # <<>> /\ Contains(ttl, line_text)

\* any(d['text'] == line_text for d in outline)
AlreadyListed(out, line_text) == \E i \in 1..Len(out) : out[i].text = line_text

HeadingStepNoDedup(out, line, page, ttl, body) ==
    IF line.spans = <<>> THEN out
    ELSE LET first_span == line.spans[1]
             line_text == LineText(line)
         IN  IF IsTitlePart(ttl, line_text) THEN out
             ELSE LET lvl == classify_heading(line_text, first_span, body)
                  IN  IF lvl # "None"
                      THEN Append(out, [level |-> lvl, text |-> line_text, page |-> page])
                      ELSE out

\* the body of the loop of line 138 for one line
HeadingStep(out, line, page, ttl, body) ==
    IF line.spans = <<>> THEN out
    ELSE LET first_span == line.spans[1]
             line_text == LineText(line)
         IN  IF IsTitlePart(ttl, line_text) THEN out
             ELSE LET lvl == classify_heading(line_text, first_span, body)
                  IN  IF lvl # "None" /\ ~AlreadyListed(out, line_text)
                      THEN Append(out, [level |-> lvl, text |-> line_text, page |-> page])
                      ELSE out

RECURSIVE DetectHeadings(_, _, _, _)
DetectHeadings(out, lines, ttl, body) ==
    IF lines = <<>> THEN out
    ELSE DetectHeadings(HeadingStep(out, Head(lines).line, Head(lines).page, ttl, body),
                        Tail(lines), ttl, body)

\* the whole call, as main uses it
extract_structure_from_pdf(path, f) ==
    IF ~f.readable THEN OnOpenError
    ELSE IF Len(f.pages) = 0 THEN EmptyStructure
    ELSE LET body == analyze_font_styles(f.pages)
             ttl == DetectedTitle(f.pages, body, path)
         IN  [kind |-> "dict",
              title |-> ttl,
              outline |-> DetectHeadings(<<>>, VisitLines(f.pages), ttl, body)]

(***************************************************************************)
(* Specification of one call of extract_structure_from_pdf                 *)
(***************************************************************************)
MaxExtractItems == 3

Arial == <<"A", "r", "i", "a", "l">>
ArialBold == <<"A", "-", "B", "o", "l", "d">>
TopAim == <<"T", "o", "p", " ", "A", "i", "m">>
Aim == <<"A", "i", "m">>
Blank == <<" ">>
BodyText == <<"w", "e", " ", "a", "i", "m", " ", "t", "o", " ", "t", "o", "p", ".">>

\* 12, 20 and 24 point text, a bold 12 point line, a blank 24 point span and
\* a sentence of 12 point body text
ExtractSpans ==
    [text : {TopAim, Aim}, size : {48, 80, 96}, font : {Arial}]
        \cup {[text |-> Aim, size |-> 48, font |-> ArialBold],
              [text |-> Blank, size |-> 96, font |-> Arial],
              [text |-> BodyText, size |-> 48, font |-> Arial]}

ExtractItems ==
    [brk : {"page", "block", "line", "span"}, span : ExtractSpans]
        \cup {[brk |-> "image", span |-> [text |-> <<>>, size |-> 0, font |-> <<>>]]}

Unreadable == [readable |-> FALSE, pages |-> <<>>]

Paths == { <<"/", "i", "n", "/", "A", "i", "m", ".", "p", "d", "f">>,
           <<"D", "o", "c", ".", "P", "D", "F">> }

InitExtract ==
    /\ pc = "open"
    /\ pdf_path \in Paths
    /\ file \in {Unreadable}
                  \cup [readable : {TRUE}, pages : DocsOf(ExtractItems, MaxExtractItems)]
    /\ body_font_size = 0
    /\ title = <<>>
    /\ outline = <<>>
    /\ line_idx = 0
    /\ result = NoResult
    /\ ClassifyIdle
    /\ BatchIdle

\* lines 88-92: fitz.open raises, the handler returns
OpenFails ==
    /\ pc = "open"
    /\ ~file.readable
    /\ result' = OnOpenError
    /\ pc' = "returned"
    /\ UNCHANGED <<body_font_size, pdf_path, file, title, outline, line_idx,
                   classifyVars, batchVars>>

\* lines 94-95
OpenEmpty ==
    /\ pc = "open"
    /\ file.readable
    /\ Len(file.pages) = 0
    /\ result' = EmptyStructure
    /\ pc' = "returned"
    /\ UNCHANGED <<body_font_size, pdf_path, file, title, outline, line_idx,
                   classifyVars, batchVars>>

\* lines 97-99
Analyze ==
    /\ pc = "open"
    /\ file.readable
    /\ Len(file.pages) # 0
    /\ body_font_size' = analyze_font_styles(file.pages)
    /\ outline' = <<>>
    /\ title' = <<>>
    /\ pc' = "title"
    /\ UNCHANGED <<pdf_path, file, line_idx, result, classifyVars, batchVars>>

\* lines 102-130
DetectTitle ==
    /\ pc = "title"
    /\ title' = DetectedTitle(file.pages, body_font_size, pdf_path)
    /\ line_idx' = 1
    /\ pc' = "headings"
    /\ UNCHANGED <<body_font_size, pdf_path, file, outline, result, classifyVars, batchVars>>

\* lines 133-155, one line of the document
HeadingLine ==
    /\ pc = "headings"
    /\ line_idx <= Len(VisitLines(file.pages))
    /\ outline' = HeadingStep(outline, VisitLines(file.pages)[line_idx].line,
                              VisitLines(file.pages)[line_idx].page, title, body_font_size)
    /\ line_idx' = line_idx + 1
    /\ UNCHANGED <<pc, body_font_size, pdf_path, file, title, result, classifyVars, batchVars>>

\* lines 157-160
Return ==
    /\ pc = "headings"
    /\ line_idx > Len(VisitLines(file.pages))
    /\ result' = [kind |-> "dict", title |-> title, outline |-> outline]
    /\ pc' = "returned"
    /\ UNCHANGED <<body_font_size, pdf_path, file, title, outline, line_idx,
                   classifyVars, batchVars>>

NextExtract ==
    \/ OpenFails
    \/ OpenEmpty
    \/ Analyze
    \/ DetectTitle
    \/ HeadingLine
    \/ Return

SpecExtract == InitExtract /\ [][NextExtract]_vars

\* the steps of the call and the call as a whole give the same value
StepsAgree ==
    pc = "returned" => result = extract_structure_from_pdf(pdf_path, file)

(***************************************************************************)
(* Properties of extract_structure_from_pdf                                *)
(***************************************************************************)
Returned == pc = "returned" /\ result.kind = "dict" /\ Len(file.pages) # 0

\* the lines, in visit order, whose text is t and that classify as a heading
HeadingOccurrences(t) ==
    LET lines == VisitLines(file.pages)
    IN  {k \in 1..Len(lines) :
            /\ lines[k].line.spans # <<>>
            /\ LineText(lines[k].line) = t
            /\ classify_heading(t, lines[k].line.spans[1], body_font_size) # "None"}

FirstOf(S) == CHOOSE k \in S : \A j \in S : k <= j

\* C1: the outline never holds two entries of the same text, and the entry of
\* a text carries the level and the page of the first line, in visit order,
\* of that text that classifies as a heading.
OutlineKeepsFirstOccurrence ==
    /\ \A i, j \in 1..Len(outline) : i # j => outline[i].text # outline[j].text
    /\ Returned =>
        LET lines == VisitLines(file.pages)
            out == result.outline
        IN  /\ \A i, j \in 1..Len(out) : i # j => out[i].text # out[j].text
            /\ \A i \in 1..Len(out) :
                 LET occ == HeadingOccurrences(out[i].text)
                 IN  /\ occ # {}
                     /\ out[i].level =
                          classify_heading(out[i].text, lines[FirstOf(occ)].line.spans[1],
                                           body_font_size)
                     /\ out[i].page = lines[FirstOf(occ)].page

OutlineKeepsFirstWitness ==
    /\ Returned
    /\ \E i \in 1..Len(result.outline) :
         LET lines == VisitLines(file.pages)
             occ == HeadingOccurrences(result.outline[i].text)
         IN  \E k \in occ :
                /\ lines[k].page # lines[FirstOf(occ)].page
                /\ classify_heading(result.outline[i].text, lines[k].line.spans[1],
                                    body_font_size) # result.outline[i].level

\* C2: for a document of at least one page, no entry of the returned outline
\* has a text that equals the returned title or is a substring of it.
NoTitlePartInOutline ==
    Returned =>
        \A i \in 1..Len(result.outline) :
            ~Contains(result.title, result.outline[i].text)

NoTitlePartWitness ==
    /\ Returned
    /\ LET lines == VisitLines(file.pages)
       IN  \E k \in 1..Len(lines) :
             /\ lines[k].page = 2
             /\ lines[k].line.spans # <<>>
             /\ LineText(lines[k].line) # result.title
             /\ Contains(result.title, LineText(lines[k].line))
             /\ classify_heading(LineText(lines[k].line), lines[k].line.spans[1],
                                 body_font_size) # "None"

\* the text blocks of the first page that have a span with text
FirstPageTextBlocks ==
    {b \in 1..Len(file.pages[1]) :
        file.pages[1][b].type = 0 /\ TitleSpans(file.pages[1][b]) # <<>>}

\* the mean span size of block b is larger than that of block c
MeanExceeds(b, c) ==
    SumSizes(TitleSpans(file.pages[1][b])) * Len(TitleSpans(file.pages[1][c]))
        > SumSizes(TitleSpans(file.pages[1][c])) * Len(TitleSpans(file.pages[1][b]))

\* the mean of b exceeds 1.5 x baseline and no other block's mean exceeds it
WinsTitle(b) ==
    /\ b \in FirstPageTextBlocks
    /\ 2 * SumSizes(TitleSpans(file.pages[1][b]))
          > 3 * body_font_size * 4 * Len(TitleSpans(file.pages[1][b]))
    /\ \A c \in FirstPageTextBlocks \ {b} : ~MeanExceeds(c, b)

\* no line of block b of the first page is in the returned outline
OwnLinesAbsent(b) ==
    \A l \in 1..Len(file.pages[1][b].lines) :
        \A i \in 1..Len(result.outline) :
            result.outline[i].text # LineText(file.pages[1][b].lines[l])

\* C3 as stated: the text of a block that wins title detection is the title
\* and none of its lines is in the outline, whatever the length of the text.
WinnerIsTitle ==
    Returned =>
        \A b \in 1..Len(file.pages[1]) :
            WinsTitle(b) =>
                /\ result.title = TitleText(file.pages[1][b])
                /\ OwnLinesAbsent(b)

\* C3 as amended: the above holds of the first block, in reading order, that
\* wins title detection, when its text has at least 5 characters.
LongFirstWinnerIsTitle ==
    Returned =>
        \A b \in 1..Len(file.pages[1]) :
            (/\ WinsTitle(b)
             /\ \A c \in FirstPageTextBlocks : c < b => MeanExceeds(b, c)
             /\ Len(TitleText(file.pages[1][b])) >= 5) =>
                /\ result.title = TitleText(file.pages[1][b])
                /\ OwnLinesAbsent(b)

LongFirstWinnerWitness ==
    /\ Returned
    /\ \E b \in 1..Len(file.pages[1]) :
         /\ WinsTitle(b)
         /\ \E c \in FirstPageTextBlocks : c > b /\ ~MeanExceeds(b, c)
         /\ Len(TitleText(file.pages[1][b])) >= 5
         /\ result.title = TitleText(file.pages[1][b])
         /\ \E l \in 1..Len(file.pages[1][b].lines) :
              classify_heading(LineText(file.pages[1][b].lines[l]),
                               file.pages[1][b].lines[l].spans[1], body_font_size) # "None"

\* C5 as stated: a document that cannot be opened and a document of zero
\* pages both return {title: "", outline: []}.
EmptyResultForBoth ==
    (pc = "returned" /\ (~file.readable \/ Len(file.pages) = 0)) =>
        result = [kind |-> "dict", title |-> <<>>, outline |-> <<>>]

\* C5 as amended: a document of zero pages returns {title: "", outline: []}
\* and a document that cannot be opened returns None; both calls return as
\* soon as the document is opened, and no error leaves the call.
EmptyResultOrNone ==
    /\ (pc # "open" /\ ~file.readable) =>
            (pc = "returned" /\ result = [kind |-> "None"])
    /\ (pc # "open" /\ file.readable /\ Len(file.pages) = 0) =>
            (pc = "returned" /\ result = [kind |-> "dict", title |-> <<>>, outline |-> <<>>])

EmptyResultOrNoneWitness ==
    pc = "returned" /\ ~file.readable /\ result.kind = "None"

\* C7: without a winning block, or with a title of fewer than 5 characters,
\* the returned title is the file name without its extension.
FallbackTitleIsStem ==
    Returned =>
        LET b == TitleBlock(file.pages[1], body_font_size)
        IN  (b = 0 \/ Len(TitleText(file.pages[1][b])) < 5) =>
                result.title = SplitextRoot(Basename(pdf_path))

(***************************************************************************)
(* main: the batch loop                                                    *)
(***************************************************************************)
InputDir == <<"/", "a", "p", "p", "/", "i", "n", "p", "u", "t">>
OutputDir == <<"/", "a", "p", "p", "/", "o", "u", "t", "p", "u", "t">>

\* os.path.join(dir, name) for a relative name
PathJoin(dir, name) == dir \o <<"/">> \o name

\* filename.lower().endswith(".pdf")
IsPdf(filename) == EndsWith(Lower(filename), <<".", "p", "d", "f">>)

\* if structure: None is false, a dict of two keys is true
Truthy(structure) == structure.kind # "None"

\* os.path.splitext(filename)[0] + ".json"
OutputFilename(filename) == SplitextRoot(filename) \o <<".", "j", "s", "o", "n">>

MaxFiles == 3

FileNames == { <<"a", ".", "p", "d", "f">>,
               <<"b", ".", "P", "D", "F">>,
               <<"c", ".", "p", "d", "f">>,
               <<"n", ".", "t", "x", "t">> }

ZeroPages == [readable |-> TRUE, pages |-> <<>>]
OnePage ==
    [readable |-> TRUE,
     pages |-> <<<<NewBlock([text |-> TopAim, size |-> 96, font |-> ArialBold])>>>>]
StoredFiles == {Unreadable, ZeroPages, OnePage}

Range(f) == {f[i] : i \in DOMAIN f}

\* the listings: the names of a directory, each once, in any order
Listings ==
    {l \in SeqsUpTo(FileNames, MaxFiles) : \A i, j \in 1..Len(l) : i # j => l[i] # l[j]}

InitBatch ==
    /\ pc = "loop"
    /\ listing \in Listings
    /\ fs \in [FileNames -> StoredFiles]
    /\ \A n \in FileNames \ Range(listing) : fs[n] = Unreadable
    /\ file_idx = 1
    /\ output_log = <<>>
    /\ body_font_size = 0
    /\ ClassifyIdle
    /\ ExtractIdle

\* extract_structure_from_pdf is a function of the path and of the file stored
\* there: its values for the files of the batch, computed once
Extracted ==
    {[name |-> n, stored |-> f,
      structure |-> extract_structure_from_pdf(PathJoin(InputDir, n), f)] :
        n \in FileNames, f \in StoredFiles}

\* structure = extract_structure_from_pdf(pdf_path), line 178
StructureOf(filename, stored) ==
    (CHOOSE e \in Extracted : e.name = filename /\ e.stored = stored).structure

\* the written outputs after the body of the loop ran for filename
LogAfter(log, filename, stored) ==
    IF ~IsPdf(filename) THEN log
    ELSE LET structure == StructureOf(filename, stored)
         IN  IF Truthy(structure)
             THEN Append(log, [input |-> filename,
                               path |-> PathJoin(OutputDir, OutputFilename(filename)),
                               structure |-> structure])
             ELSE log

ProcessFileAborts ==
    /\ pc = "loop"
    /\ file_idx <= Len(listing)
    /\ output_log' = LogAfter(output_log, listing[file_idx], fs[listing[file_idx]])
    /\ file_idx' = file_idx + 1
    /\ pc' = IF IsPdf(listing[file_idx]) /\ ~fs[listing[file_idx]].readable
             THEN "exit" ELSE pc
    /\ UNCHANGED <<listing, fs, body_font_size, classifyVars, extractVars>>

\* lines 173-187: one iteration of the for loop
ProcessFile ==
    /\ pc = "loop"
    /\ file_idx <= Len(listing)
    /\ output_log' = LogAfter(output_log, listing[file_idx], fs[listing[file_idx]])
    /\ file_idx' = file_idx + 1
    /\ UNCHANGED <<pc, listing, fs, body_font_size, classifyVars, extractVars>>

\* the listing is exhausted
LoopEnds ==
    /\ pc = "loop"
    /\ file_idx > Len(listing)
    /\ pc' = "exit"
    /\ UNCHANGED <<file_idx, listing, fs, output_log, body_font_size, classifyVars,
                   extractVars>>

NextBatch ==
    \/ ProcessFile
    \/ LoopEnds

\* the loop is sequential code: while a step is possible, one is taken
SpecBatch == InitBatch /\ [][NextBatch]_vars /\ WF_vars(NextBatch)

\* the number of output structures written for the input file name
WritesFor(name) == Cardinality({i \in 1..Len(output_log) : output_log[i].input = name})

\* the loop has ended with one output per PDF that opens and none for the others
BatchSettled ==
    /\ pc = "exit"
    /\ \A i \in 1..Len(listing) :
         IsPdf(listing[i]) =>
             WritesFor(listing[i]) = (IF fs[listing[i]].readable THEN 1 ELSE 0)

\* C6: the loop ends, and when it has ended no output was written for a PDF
\* that fails to open and exactly one for every PDF that opens, a zero-page
\* one included, wherever the failing documents are in the listing.
BatchSkipsOnlyFailures == <>[]BatchSettled

BatchSkipsWitness ==
    /\ pc = "exit"
    /\ \E i, j, k \in 1..Len(listing) :
         /\ i < j /\ j < k
         /\ IsPdf(listing[i]) /\ fs[listing[i]] = OnePage /\ WritesFor(listing[i]) = 1
         /\ IsPdf(listing[j]) /\ ~fs[listing[j]].readable /\ WritesFor(listing[j]) = 0
         /\ IsPdf(listing[k]) /\ fs[listing[k]] = ZeroPages /\ WritesFor(listing[k]) = 1

====
